---- MODULE Spec2Model ----
(***************************************************************************)
(* Realtime data synchronisation layer of komari-theme-commander:          *)
(*   - the Entity Registry and Status Reconciler (hooks/useNodes.ts),      *)
(*   - the ApiService request deduplication and the polling                *)
(*     WebSocketService (services/api),                                    *)
(*   - the incremental time-series merge (utils/uptime mergeRecords),      *)
(*   - the uptime slots (utils/uptime computeUptime),                      *)
(*   - the per-node history cache of components/UptimeView.tsx,            *)
(*   - the sparkline cache (hooks/useRecentStats.ts),                      *)
(*   - the JSON-RPC client over a WebSocket (lib/rpc2/client.ts).          *)
(***************************************************************************)
EXTENDS Integers, Sequences, FiniteSets, TLC

(* ---------------------------------------------------------------------- *)
(* Bounds of the model                                                     *)
(* ---------------------------------------------------------------------- *)
MaxClock == 1
MaxInFlight == 2
MaxCallers == 2
MaxRecords == 2
MaxRefresh == 1
MaxElapsed == 1
MaxSamples == 2
MaxSockets == 2
MaxTimers == 2
MaxRequests == 2

(* ---------------------------------------------------------------------- *)
(* JavaScript values                                                       *)
(* ---------------------------------------------------------------------- *)
\* a numeric property that is absent from the object (undefined)
Undef == 0 - 1
\* the number NaN
NaN == 0 - 2
\* a string property that is absent from the object
NoMsg == "<undefined>"

\* the falsy numbers of `x || 0`
Falsy(x) == x \in {Undef, NaN, 0}
\* variant: `x ?? 0`, which lets NaN through
OrZero_Nullish(x) == IF x = Undef THEN 0 ELSE x
\* `x || 0`
OrZero(x) == IF Falsy(x) THEN 0 ELSE x
\* `s || ''`
OrEmpty(s) == IF s = NoMsg \/ s = "" THEN "" ELSE s
\* new Date(ms).toISOString(): the timestamp string of the instant ms;
\* timestamp strings are coded as integers, the ISO strings of the clock
\* occupy the codes from IsoBase upward
IsoBase == 100
ToISOString(ms) == IsoBase + ms
\* `t || new Date().toISOString()`
OrNowISO(t, clock) == IF t = Undef \/ t = 0 THEN ToISOString(clock) ELSE t

\* the value undefined of an optional object (node.stats, data.data[uuid])
NoStats == [absent |-> TRUE]
\* the value null of the hook's error state
NoError == "<null>"

(* ---------------------------------------------------------------------- *)
(* Entities and the raw data the server sends                              *)
(* ---------------------------------------------------------------------- *)
\* uuids in the key order of the server's JSON objects (Object.entries)
IdSeq == <<"A", "B">>
Ids == {IdSeq[i] : i \in 1..Len(IdSeq)}

\* RPC2NodeStatus values of common:getNodesLatestStatus (without `online`)
RawFull ==
  [cpu |-> 1, ram |-> 1, ram_total |-> 2, swap |-> 1, swap_total |-> 2,
   disk |-> 1, disk_total |-> 2, net_in |-> 1, net_out |-> 1,
   net_total_up |-> 1, net_total_down |-> 1, load |-> 1, load5 |-> 1,
   load15 |-> 1, uptime |-> 1, process |-> 1, connections |-> 1,
   connections_udp |-> 1, message |-> "ok", time |-> ToISOString(1)]
\* the same report with another message only
RawMsg == [RawFull EXCEPT !.message = "warn"]
\* a report with missing / NaN fields and no report time
RawSparse ==
  [cpu |-> NaN, ram |-> Undef, ram_total |-> 2, swap |-> Undef,
   swap_total |-> Undef, disk |-> 1, disk_total |-> Undef, net_in |-> Undef,
   net_out |-> 1, net_total_up |-> Undef, net_total_down |-> Undef,
   load |-> Undef, load5 |-> NaN, load15 |-> Undef, uptime |-> Undef,
   process |-> Undef, connections |-> Undef, connections_udp |-> Undef,
   message |-> NoMsg, time |-> Undef]
RawStatuses == {RawFull, RawMsg, RawSparse}

\* the entries of a result of common:getNodesLatestStatus, per uuid: IdSeq[1]
\* reports in every shape, the other entity reports in full when it does
StatusEntries(k) ==
  IF k = IdSeq[1]
  THEN {[raw |-> RawFull, online |-> TRUE], [raw |-> RawFull, online |-> FALSE],
        [raw |-> RawMsg, online |-> TRUE], [raw |-> RawSparse, online |-> TRUE]}
  ELSE {[raw |-> RawFull, online |-> TRUE]}
\* the results of common:getNodesLatestStatus: uuid -> RPC2NodeStatus
PollResults ==
  UNION {{f \in [S -> UNION {StatusEntries(k) : k \in Ids}] :
            \A k \in S : f[k] \in StatusEntries(k)} : S \in SUBSET Ids}

\* RPC2NodeData values of common:getNodes for key k
Clients(k) ==
  IF k = IdSeq[1]
  THEN {[uuid |-> k, name |-> "n1"], [uuid |-> "", name |-> "n2"]}
  ELSE {[uuid |-> k, name |-> "n1"]}
\* the results of common:getNodes: uuid -> RPC2NodeData
NodesResults ==
  UNION {{f \in [S -> UNION {Clients(k) : k \in Ids}] :
            \A k \in S : f[k] \in Clients(k)} : S \in SUBSET Ids}

(* ---------------------------------------------------------------------- *)
(* Data format adapters (services/api)                                     *)
(* ---------------------------------------------------------------------- *)
\* adaptNodeData: RPC2 Client object -> NodeData
adaptNodeData(uuid, client) ==
  [uuid |-> IF client.uuid = "" THEN uuid ELSE client.uuid,
   name |-> client.name]

\* adaptNodeStatus: RPC2 flat NodeStatus -> nested NodeStats
adaptNodeStatus(status, clock) ==
  [cpu |-> [usage |-> OrZero(status.cpu)],
   ram |-> [total |-> OrZero(status.ram_total), used |-> OrZero(status.ram)],
   swap |-> [total |-> OrZero(status.swap_total), used |-> OrZero(status.swap)],
   disk |-> [total |-> OrZero(status.disk_total), used |-> OrZero(status.disk)],
   network |-> [up |-> OrZero(status.net_in),
                down |-> OrZero(status.net_out),
                totalUp |-> OrZero(status.net_total_up),
                totalDown |-> OrZero(status.net_total_down)],
   load |-> [load1 |-> OrZero(status.load),
             load5 |-> OrZero(status.load5),
             load15 |-> OrZero(status.load15)],
   uptime |-> OrZero(status.uptime),
   process |-> OrZero(status.process),
   connections |-> [tcp |-> OrZero(status.connections),
                    udp |-> OrZero(status.connections_udp)],
   message |-> OrEmpty(status.message),
   updated_at |-> OrNowISO(status.time, clock)]

(* ---------------------------------------------------------------------- *)
(* Status Reconciler (hooks/useNodes.ts)                                   *)
(* ---------------------------------------------------------------------- *)
\* variant: reference comparison only
statsEqual_RefOnly(a, b) == a = NoStats /\ b = NoStats

\* statsEqual(a, b).  `a === b` is reference equality: newStats is a fresh
\* object whenever it is defined, so the first test succeeds only when both
\* are undefined.
statsEqual(a, b) ==
  IF a = NoStats /\ b = NoStats THEN TRUE
  ELSE IF a = NoStats \/ b = NoStats THEN FALSE
  ELSE /\ a.cpu.usage = b.cpu.usage
       /\ a.ram.used = b.ram.used
       /\ a.ram.total = b.ram.total
       /\ a.swap.used = b.swap.used
       /\ a.swap.total = b.swap.total
       /\ a.disk.used = b.disk.used
       /\ a.disk.total = b.disk.total
       /\ a.network.up = b.network.up
       /\ a.network.down = b.network.down
       /\ a.network.totalUp = b.network.totalUp
       /\ a.network.totalDown = b.network.totalDown
       /\ a.load.load1 = b.load.load1
       /\ a.load.load5 = b.load.load5
       /\ a.load.load15 = b.load.load15
       /\ a.uptime = b.uptime
       /\ a.process = b.process
       /\ a.connections.tcp = b.connections.tcp
       /\ a.connections.udp = b.connections.udp
       /\ a.updated_at = b.updated_at

\* newStats of handleWebSocketData: the second normalisation of data.data[uuid]
NewStats(rawStats, clock) ==
  IF rawStats = NoStats THEN NoStats
  ELSE
  [cpu |-> [usage |-> OrZero(rawStats.cpu.usage)],
   ram |-> [total |-> OrZero(rawStats.ram.total), used |-> OrZero(rawStats.ram.used)],
   swap |-> [total |-> OrZero(rawStats.swap.total), used |-> OrZero(rawStats.swap.used)],
   disk |-> [total |-> OrZero(rawStats.disk.total), used |-> OrZero(rawStats.disk.used)],
   network |-> [up |-> OrZero(rawStats.network.up),
                down |-> OrZero(rawStats.network.down),
                totalUp |-> OrZero(rawStats.network.totalUp),
                totalDown |-> OrZero(rawStats.network.totalDown)],
   load |-> [load1 |-> OrZero(rawStats.load.load1),
             load5 |-> OrZero(rawStats.load.load5),
             load15 |-> OrZero(rawStats.load.load15)],
   uptime |-> OrZero(rawStats.uptime),
   process |-> OrZero(rawStats.process),
   connections |-> [tcp |-> OrZero(rawStats.connections.tcp),
                    udp |-> OrZero(rawStats.connections.udp)],
   message |-> OrEmpty(rawStats.message),
   updated_at |-> OrNowISO(rawStats.updated_at, clock)]

\* newStatus of handleWebSocketData: data.online.includes(node.uuid)
NewStatus(uuid, online) == IF uuid \in online THEN "online" ELSE "offline"

\* data.data[node.uuid]
RawStatsOf(uuid, data) == IF uuid \in DOMAIN data THEN data[uuid] ELSE NoStats

\* variant: the status is left out of the comparison
NodeUnchanged_IgnoreStatus(node, newStatus, newStats) ==
  statsEqual(node.stats, newStats)

\* "Skip creating new object if nothing changed"
NodeUnchanged(node, newStatus, newStats) ==
  node.status = newStatus /\ statsEqual(node.stats, newStats)

\* the body of prevNodes.map(...): the node itself, or a new object (identity
\* ref) carrying the new status and stats
ReconcileNode(node, online, data, clock, ref) ==
  LET newStatus == NewStatus(node.uuid, online)
      newStats == NewStats(RawStatsOf(node.uuid, data), clock)
  IN IF NodeUnchanged(node, newStatus, newStats)
     THEN node
     ELSE [node EXCEPT !.status = newStatus, !.stats = newStats, !.ref = ref]


(* ---------------------------------------------------------------------- *)
(* Object identity: every object has an address, and a new object gets an  *)
(* address that no live object has.  The snapshot array (slot 0) and the   *)
(* entry at index i (slot i) are the only live objects; a new object of a  *)
(* slot takes the address of the slot's pair that is not in use.           *)
(* ---------------------------------------------------------------------- *)
LiveRefs(ns, snap) == {snap} \cup {ns[i].ref : i \in 1..Len(ns)}
NewRef(slot, live) == IF 2 * slot \in live THEN 2 * slot + 1 ELSE 2 * slot

\* handleWebSocketData: nextNodes = prevNodes.map(...)
NextNodes(prevNodes, snap, online, data, clock) ==
  LET live == LiveRefs(prevNodes, snap)
  IN [i \in 1..Len(prevNodes) |->
        ReconcileNode(prevNodes[i], online, data, clock, NewRef(i, live))]

\* handleWebSocketData: `changed` is set whenever map() created a new object
Changed(prevNodes, nextNodes) ==
  \E i \in 1..Len(prevNodes) : nextNodes[i].ref # prevNodes[i].ref

(* ---------------------------------------------------------------------- *)
(* ApiService.getNodes, dedup and fetchNodes                               *)
(* ---------------------------------------------------------------------- *)
\* outcomes of one rpc2Client.call: rejection, a null result, or a result
RpcReject == [kind |-> "reject"]
RpcNull == [kind |-> "null"]
RpcOk(r) == [kind |-> "ok", result |-> r]

\* variant: the pending promise is never found
DedupExisting_Never(key, pending) == FALSE

\* dedup: `const existing = pendingCalls.get(key); if (existing) return existing`
DedupExisting(key, pending) == key \in pending

\* ApiService.getNodes, the async function given to dedup: what the shared
\* promise settles to for an outcome of the remote call
ApiGetNodes(outcome) ==
  IF outcome.kind = "reject" THEN [rejected |-> FALSE, value |-> <<>>]
  ELSE IF outcome.kind = "null" THEN [rejected |-> FALSE, value |-> <<>>]
  ELSE LET keys == SelectSeq(IdSeq, LAMBDA k : k \in DOMAIN outcome.result)
       IN [rejected |-> FALSE,
           value |-> [i \in 1..Len(keys) |->
                        adaptNodeData(keys[i], outcome.result[keys[i]])]]

\* variant: the loaded entity is presumed online
NodeWithStatus_Online(node, ref) ==
  [uuid |-> node.uuid, name |-> node.name, status |-> "online",
   stats |-> NoStats, ref |-> ref]

\* fetchNodes: one element of nodesWithStatus, a new object
NodeWithStatus(node, ref) ==
  [uuid |-> node.uuid, name |-> node.name, status |-> "offline",
   stats |-> NoStats, ref |-> ref]

\* fetchNodes: nodesWithStatus = nodeData.map(...)
NodesWithStatus(fetched, prevNodes, snap) ==
  LET live == LiveRefs(prevNodes, snap)
  IN [i \in 1..Len(fetched) |-> NodeWithStatus(fetched[i], NewRef(i, live))]

\* fetchNodes: the error message of the catch block
FetchErrorMessage == "Failed to fetch node data"

(* ---------------------------------------------------------------------- *)
(* WebSocketService.fetchLatestStatus and the poll interval                *)
(* ---------------------------------------------------------------------- *)
\* onlineList: the uuids whose status.online is set
OnlineList(result) == {u \in DOMAIN result : result[u].online}
\* dataMap[uuid] = adaptNodeStatus(status)
DataMap(result, clock) ==
  [u \in DOMAIN result |-> adaptNodeStatus(result[u].raw, clock)]
\* the polls in flight are numbered from 1 in the order they were issued, and
\* the first `stale` of them were issued before a poll whose result has been
\* stored; the number of such polls left once poll k has brought a result
StaleAfterResult(k, stale) == IF k <= stale THEN stale - 1 ELSE k - 1
\* and once poll k has failed
StaleAfterFailure(k, stale) == IF k <= stale THEN stale - 1 ELSE stale
\* variant: a failure clears the presence set
OnlineAfterFailure_Cleared(online) == {}
\* the catch block (and `if (!result) return`): the presence set is kept
OnlineAfterFailure(online) == online
\* variant: the interval polls unconditionally
TickPolls_Always(online) == TRUE
\* the interval callback: `wsService.getOnlineNodes().length > 0`
TickPolls(online) == Cardinality(online) > 0

(* ---------------------------------------------------------------------- *)
(* Incremental merge utilities (utils/uptime)                              *)
(* ---------------------------------------------------------------------- *)
\* milliseconds per hour: `rangeHours * 3600_000`
HourMs == 3600000

\* timestamp strings of load records
TimeStrings == {"T1", "T2", "T3", "T3.000", "bad"}
\* new Date(rec.time).getTime(): the instant of a timestamp string in ms; two
\* spellings of one instant parse alike, an unparsable string yields NaN
DateParse(str) ==
  CASE str = "T1" -> 1 * HourMs
    [] str = "T2" -> 2 * HourMs
    [] str = "T3" -> 3 * HourMs
    [] str = "T3.000" -> 3 * HourMs
    [] OTHER -> NaN
\* `t >= cutoff` on JavaScript numbers: false when t is NaN
GeCutoff(t, cutoff) == t # NaN /\ t >= cutoff

\* the records of one input array: record k of `src` carries its timestamp
\* and its identity (src, k)
Records(times, src) ==
  [k \in 1..Len(times) |-> [time |-> times[k], src |-> src, k |-> k]]

\* one `for (const rec of ...)` loop of mergeRecords from position i
RECURSIVE MergeLoop(_, _, _, _, _)
MergeLoop(recs, i, seen, merged, cutoff) ==
  IF i > Len(recs) THEN [seen |-> seen, merged |-> merged]
  ELSE LET rec == recs[i]
       IN IF rec.time \notin seen
          THEN MergeLoop(recs, i + 1, seen \cup {rec.time},
                         IF GeCutoff(DateParse(rec.time), cutoff)
                         THEN Append(merged, rec) ELSE merged,
                         cutoff)
          ELSE MergeLoop(recs, i + 1, seen, merged, cutoff)

\* variant: the old records are processed first
mergeRecords_OldFirst(oldRecords, newRecords, rangeHours, now) ==
  LET cutoff == now - rangeHours * HourMs
      afterOld == MergeLoop(oldRecords, 1, {}, <<>>, cutoff)
      afterNew == MergeLoop(newRecords, 1, afterOld.seen, afterOld.merged, cutoff)
  IN afterNew.merged

\* mergeRecords(oldRecords, newRecords, rangeHours) at Date.now() = now
mergeRecords(oldRecords, newRecords, rangeHours, now) ==
  LET cutoff == now - rangeHours * HourMs
      afterNew == MergeLoop(newRecords, 1, {}, <<>>, cutoff)
      afterOld == MergeLoop(oldRecords, 1, afterNew.seen, afterNew.merged, cutoff)
  IN afterOld.merged

(* ---------------------------------------------------------------------- *)
(* Uptime computation (utils/uptime)                                       *)
(* ---------------------------------------------------------------------- *)
\* Math.ceil(a / b) for a >= 0, b > 0
Ceil(a, b) == (a + b - 1) \div b
\* Math.min(a, b)
Min(a, b) == IF a < b THEN a ELSE b

\* variant: a 24-hour range gets 6-hour slots
slotHoursForRange_Strict(rangeHours) ==
  IF rangeHours < 24 THEN 1 ELSE IF rangeHours <= 168 THEN 6 ELSE 24
\* slotHoursForRange(rangeHours)
slotHoursForRange(rangeHours) ==
  IF rangeHours <= 24 THEN 1 ELSE IF rangeHours <= 168 THEN 6 ELSE 24

\* the first loop of computeUptime: the indices added to occupiedSlots; a NaN
\* time passes `t < rangeStart || t > now` and fails `idx >= 0`
OccupiedSlots(records, rangeStart, now, slotMs, slotCount) ==
  {(DateParse(records[k].time) - rangeStart) \div slotMs :
     k \in {j \in 1..Len(records) :
              LET t == DateParse(records[j].time)
              IN /\ t # NaN
                 /\ ~(t < rangeStart \/ t > now)
                 /\ (t - rangeStart) \div slotMs >= 0
                 /\ (t - rangeStart) \div slotMs < slotCount}}

\* variant: a slot that reaches past now is unknown
UptimeSlot_Clipped(i, occupied, rangeStart, now, slotMs) ==
  LET start == rangeStart + i * slotMs
      end == Min(start + slotMs, now)
  IN [start |-> start, end |-> end,
      status |-> IF start + slotMs > now THEN "unknown"
                 ELSE IF i \in occupied THEN "online" ELSE "offline"]
\* the second loop of computeUptime: slot i (from 0)
UptimeSlot(i, occupied, rangeStart, now, slotMs) ==
  LET start == rangeStart + i * slotMs
      end == Min(start + slotMs, now)
  IN [start |-> start, end |-> end,
      status |-> IF start > now THEN "unknown"
                 ELSE IF i \in occupied THEN "online" ELSE "offline"]

\* computeUptime(records, rangeHours) at Date.now() = now; uptimePercent is
\* kept in hundredths of a percent, truncated
computeUptime(records, rangeHours, now) ==
  LET rangeMs == rangeHours * HourMs
      rangeStart == now - rangeMs
      slotMs == slotHoursForRange(rangeHours) * HourMs
      slotCount == Ceil(rangeMs, slotMs)
      occupied == OccupiedSlots(records, rangeStart, now, slotMs, slotCount)
      slots == [k \in 1..slotCount |->
                  UptimeSlot(k - 1, occupied, rangeStart, now, slotMs)]
      onlineSlots == Cardinality({k \in 1..slotCount : slots[k].status = "online"})
      offlineSlots == Cardinality({k \in 1..slotCount : slots[k].status = "offline"})
      total == onlineSlots + offlineSlots
  IN [slots |-> slots,
      uptimePercent |-> IF total > 0 THEN (onlineSlots * 10000) \div total ELSE 0,
      onlineSlots |-> onlineSlots,
      offlineSlots |-> offlineSlots,
      totalSlots |-> total]

(* ---------------------------------------------------------------------- *)
(* Incremental Time-Series Assembler (components/UptimeView)               *)
(* ---------------------------------------------------------------------- *)
\* `const NODE_REFRESH_INTERVAL = 2 * 60_000`
NODE_REFRESH_INTERVAL == 120000
\* the freshness threshold of doFetch: `30 * 60_000`
IncrementalMaxAge == 30 * 60000
\* buildUptimeRanges(): the hours of the first two range options
RangeOptions == <<24, 168>>
\* Date.now() when the page is opened
PageOpenedAt == 3 * HourMs

\* `_cache = null`
NoCache == [null |-> TRUE]
\* `_cache.nodes.get(uuid)` of a missing key
NoEntry == [undefined |-> TRUE]
\* no call awaiting getLoadHistory
NoCall == [none |-> TRUE]
\* `{ nodes: new Map(), rangeHours }`
EmptyCache(rangeHours) ==
  [rangeHours |-> rangeHours, nodes |-> [u \in Ids |-> NoEntry]]

\* the backend's load records of one entity, in time order
ServerTimes == <<"T1", "T2", "T3">>
\* the result of common:getRecords {type: 'load', uuid, hours} at instant now;
\* `stamp` tells the request that produced the record objects
GetRecordsResult(hours, now, stamp) ==
  LET times == SelectSeq(ServerTimes,
                 LAMBDA s : DateParse(s) >= now - hours * HourMs
                            /\ DateParse(s) <= now)
  IN [count |-> Len(times), records |-> Records(times, stamp)]

\* the value null that getLoadHistory resolves to
NoData == [nodata |-> TRUE]
\* ApiService.getLoadHistory: what the promise resolves to
ApiGetLoadHistory(outcome) ==
  IF outcome.kind = "reject" THEN NoData
  ELSE IF outcome.kind = "null" THEN NoData
  ELSE [count |-> outcome.result.count, records |-> outcome.result.records]

\* the key under which getLoadHistory(uuid, hours) goes through dedup:
\* `getLoadHistory:${uuid}:${hours}`
LoadHistoryKey(uuid, hours) == <<"getLoadHistory", uuid, hours>>

\* `data?.records ?? []`
RecordsOrEmpty(data) == IF data = NoData THEN <<>> ELSE data.records

\* doFetch: `cached && !isForceRefresh && (Date.now() - cached.fetchedAt < 30 * 60_000)`
IsIncremental(cached, isForceRefresh, now) ==
  /\ cached # NoEntry
  /\ ~isForceRefresh
  /\ now - cached.fetchedAt < IncrementalMaxAge

\* `Math.ceil(deltaMs / 3600_000) + 1`
DeltaHours(fetchedAt, now) == Ceil(now - fetchedAt, HourMs) + 1

\* a LazyNodeRow instance right after its first render
NewRow(fetchCall) ==
  [isVisible |-> FALSE, fetchedRef |-> FALSE, timer |-> 0,
   fetchCall |-> fetchCall]

\* the cleanup of the fetch effect: `cancelled = true` in the closure of the
\* doFetch that the previous run of the effect started
Cancel(call) ==
  IF call = NoCall THEN NoCall ELSE [call EXCEPT !.cancelled = TRUE]

\* "Check cache on mount" effect of row u; w = [cache, rows]
CheckCacheEffect(w, u, rangeHours) ==
  IF /\ w.cache # NoCache
     /\ w.cache.rangeHours = rangeHours
     /\ w.cache.nodes[u] # NoEntry
  THEN [w EXCEPT !.rows[u].fetchedRef = TRUE]
  ELSE w

\* the fetch effect of row u re-runs: cleanup of the previous run, the two
\* early returns, then doFetch up to `await apiService.getLoadHistory`
FetchEffect(w, u, rangeHours, isForceRefresh, now, stamp) ==
  LET row == [w.rows[u] EXCEPT !.fetchCall = Cancel(w.rows[u].fetchCall)]
      w1 == [w EXCEPT !.rows[u] = row]
  IN IF ~row.isVisible /\ ~isForceRefresh THEN w1
     ELSE IF row.fetchedRef /\ ~isForceRefresh THEN w1
     ELSE LET c == IF w.cache = NoCache \/ w.cache.rangeHours # rangeHours
                   THEN EmptyCache(rangeHours) ELSE w.cache
              cached == c.nodes[u]
              isIncremental == IsIncremental(cached, isForceRefresh, now)
              call == [cancelled |-> FALSE,
                       isIncremental |-> isIncremental,
                       cached |-> cached,
                       rangeHours |-> rangeHours,
                       fetchHours |-> IF isIncremental
                                      THEN DeltaHours(cached.fetchedAt, now)
                                      ELSE rangeHours,
                       stamp |-> stamp]
          IN [cache |-> c, rows |-> [w.rows EXCEPT ![u].fetchCall = call]]

\* the timer effect's guard: `if (!isVisible || !fetchedRef.current) return`
TimerStarts(row) == row.isVisible /\ row.fetchedRef

\* the timer effect of row u re-runs: clearInterval, then setInterval when
\* the row is visible and already fetched; the timer keeps rangeHours
TimerEffect(w, u, rangeHours) ==
  [w EXCEPT !.rows[u].timer = IF TimerStarts(w.rows[u]) THEN rangeHours ELSE 0]

\* the effects of rows IdSeq[i..] in render order; `run` tells which effects
\* have a changed dependency
RECURSIVE RunEffects(_, _, _, _, _, _)
RunEffects(w, i, run, rangeHours, now, stamp) ==
  IF i > Len(IdSeq) THEN w
  ELSE LET u == IdSeq[i]
           w1 == IF run.check THEN CheckCacheEffect(w, u, rangeHours) ELSE w
           w2 == IF run.fetch
                 THEN FetchEffect(w1, u, rangeHours, run.force, now, stamp)
                 ELSE w1
           w3 == IF run.timer THEN TimerEffect(w2, u, rangeHours) ELSE w2
       IN RunEffects(w3, i + 1, run, rangeHours, now, stamp)

\* the NodeCache object that doFetch and the timer callback store
NodeCache(records, rangeHours, now) ==
  [records |-> records,
   result |-> computeUptime(records, rangeHours, now),
   fetchedAt |-> now]

(* ---------------------------------------------------------------------- *)
(* Sparkline Cache (hooks/useRecentStats.ts)                               *)
(* ---------------------------------------------------------------------- *)
\* `const BATCH_SIZE = 4`
BATCH_SIZE == 4

\* the cpu field of an RPC2StatusRecord: absent or a load figure
RawCpu == {Undef, 5}
\* the records of a result of common:getNodeRecentStatus
RecentRecords ==
  UNION {[1..n -> [cpu : RawCpu]] : n \in 0..MaxSamples}
\* the outcomes of the remote call behind getNodeRecentStats(uuid)
RecentOutcomes == {RpcReject} \cup {RpcOk([records |-> r]) : r \in RecentRecords}
\* the uuids the provider is given
SpIdSeq == <<"A", "B", "C", "D", "E">>
\* the outcomes per uuid: every one for A, failure or a full series for B,
\* a full series for the others
RecentOutcomesOf(u) ==
  LET full == RpcOk([records |-> [i \in 1..2 |-> [cpu |-> 5]]])
  IN IF u = "A" THEN RecentOutcomes
     ELSE IF u = "B" THEN {RpcReject, full}
     ELSE {full}

\* adaptStatusRecord: the part of NodeStats that the sparkline reads
adaptStatusRecord(record) == [cpu |-> [usage |-> OrZero(record.cpu)]]

\* ApiService.getNodeRecentStats: what the promise resolves to
ApiGetNodeRecentStats(outcome) ==
  IF outcome.kind = "reject" THEN <<>>
  ELSE IF outcome.kind = "null" THEN <<>>
  ELSE [i \in 1..Len(outcome.result.records) |->
          adaptStatusRecord(outcome.result.records[i])]

\* fetchAll: `(stats || []).map(s => s?.cpu?.usage ?? null).filter(v => v !== null)`;
\* usage is a number in every adapted record
CpuValues(stats) == [i \in 1..Len(stats) |-> stats[i].cpu.usage]

\* variant: one sample is enough to overwrite
KeepsSeries_One(data) == Len(data) >= 1
\* the guard of setSparklineMap: `if (data.length >= 2)`
KeepsSeries(data) == Len(data) >= 2

\* the members of an array of uuids
Members(uuids) == {uuids[i] : i \in 1..Len(uuids)}

\* `[...uuids].sort()` of an array of distinct uuids
SortUuids(uuids) ==
  SelectSeq(SpIdSeq, LAMBDA k : \E i \in 1..Len(uuids) : uuids[i] = k)

\* `sorted.join(',')`
RECURSIVE JoinKey(_)
JoinKey(seq) ==
  IF Len(seq) = 0 THEN ""
  ELSE IF Len(seq) = 1 THEN seq[1]
  ELSE seq[1] \o "," \o JoinKey(Tail(seq))

\* variant: the key is built from the array as given
useStableUuids_Unsorted(uuids, st) ==
  IF st.prevKey # JoinKey(uuids)
  THEN [prevKey |-> JoinKey(uuids), current |-> uuids, ref |-> 1 - st.ref]
  ELSE st
\* useStableUuids(uuids) with the refs st = [prevKey, current, ref]: `ref`
\* is the identity of the array in ref.current
useStableUuids(uuids, st) ==
  LET sorted == SortUuids(uuids)
      key == JoinKey(sorted)
  IN IF st.prevKey # key
     THEN [prevKey |-> key, current |-> sorted, ref |-> 1 - st.ref]
     ELSE st

\* no fetchAll loop is running
NoCycle == [none |-> TRUE]
\* `uuids.slice(i, i + BATCH_SIZE)`
Batch(c) == SubSeq(c.uuids, c.i + 1, Min(c.i + BATCH_SIZE, Len(c.uuids)))

\* one turn of the loop of fetchAll up to `await Promise.all`: a request per
\* uuid of the batch is outstanding and no result is in yet
StartBatch(uuids, i) ==
  LET batch == Batch([uuids |-> uuids, i |-> i])
  IN [uuids |-> uuids, i |-> i,
      pending |-> {batch[k] : k \in 1..Len(batch)},
      data |-> <<>>]

\* variant: fetchAll without the test of fetchingRef
FetchAllStart_Unguarded(uuids, f) ==
  IF Len(uuids) = 0 THEN f
  ELSE [fetchingRef |-> TRUE, cycle |-> StartBatch(uuids, 0)]
\* fetchAll(uuids) up to the first `await Promise.all`; f = [fetchingRef, cycle]
FetchAllStart(uuids, f) ==
  IF f.fetchingRef \/ Len(uuids) = 0 THEN f
  ELSE [fetchingRef |-> TRUE, cycle |-> StartBatch(uuids, 0)]

\* the updater of setSparklineMap for the results of one batch
NextSparklineMap(prev, batch, data) ==
  LET kept == {batch[k] : k \in {j \in 1..Len(batch) : KeepsSeries(data[batch[j]])}}
  IN [u \in DOMAIN prev \cup kept |-> IF u \in kept THEN data[u] ELSE prev[u]]

(* ---------------------------------------------------------------------- *)
(* RPC2Client (lib/rpc2/client.ts)                                         *)
(* ---------------------------------------------------------------------- *)
\* `maxReconnectAttempts: 5`
MaxReconnectAttempts == 5

\* the WebSocket objects the client has created and not yet seen closed
SocketSlots == 1..MaxSockets
\* a WebSocket: its readyState, and whether the promise inside connect() is
\* still listening for its open and error events
ClosedSocket == [ready |-> "closed", awaited |-> FALSE]
\* `new WebSocket(wsUrl)` inside connect()
NewSocket == [ready |-> "connecting", awaited |-> TRUE]

\* a client object before its constructor calls autoConnect
NewClient ==
  [connectionState |-> "disconnected",
   ws |-> 0,
   sockets |-> [i \in SocketSlots |-> ClosedSocket],
   autoReconnect |-> TRUE,
   reconnectAttempts |-> 0,
   timers |-> 0,
   latestTimer |-> FALSE,
   heartbeat |-> FALSE,
   requestId |-> 0,
   pendingRequests |-> {},
   calls |-> <<>>]

FreeSlots(c) == {i \in SocketSlots : c.sockets[i].ready = "closed"}
\* connect() would return at once
ConnectReturns(c) == c.connectionState \in {"connected", "connecting"}

\* connect() up to its await: the early return, CONNECTING, the new socket
\* in _ws, setupWebSocketHandlers
Connect(c) ==
  IF ConnectReturns(c) THEN c
  ELSE LET i == CHOOSE k \in FreeSlots(c) : \A j \in FreeSlots(c) : k <= j
       IN [c EXCEPT !.connectionState = "connecting",
                    !.sockets[i] = NewSocket,
                    !.ws = i]

\* the promise inside connect() rejects (handleError or the 10 s timeout):
\* cleanup, then the catch block sets ERROR
ConnectFailed(c, i) ==
  [c EXCEPT !.connectionState = "error", !.sockets[i].awaited = FALSE]

\* ws.close(): a socket that is connecting or open starts closing
CloseSocket(sock) ==
  IF sock.ready \in {"connecting", "open"}
  THEN [sock EXCEPT !.ready = "closing"] ELSE sock

\* clearPendingRequests(error): clearTimeout and reject for every entry,
\* then the table is cleared
ClearPendingRequests(c) ==
  [c EXCEPT !.pendingRequests = {},
            !.calls = [id \in DOMAIN c.calls |->
                         IF id \in c.pendingRequests
                         THEN [c.calls[id] EXCEPT
                                 !.timer = FALSE,
                                 !.settles = @ + 1,
                                 !.state = IF @ = "pending" THEN "rejected" ELSE @]
                         ELSE c.calls[id]]]

\* disconnect()
Disconnect(c) ==
  ClearPendingRequests(
    [c EXCEPT !.autoReconnect = FALSE,
              !.timers = IF c.latestTimer THEN @ - 1 ELSE @,
              !.latestTimer = FALSE,
              !.heartbeat = FALSE,
              !.sockets = IF c.ws = 0 THEN @
                          ELSE [@ EXCEPT ![c.ws] = CloseSocket(@)],
              !.ws = 0,
              !.connectionState = "disconnected"])

\* reconnect()
Reconnect(c) ==
  Connect([Disconnect(c) EXCEPT !.autoReconnect = TRUE,
                                !.reconnectAttempts = 0])

\* attemptReconnect(): the new timeout replaces the handle in reconnectTimeout
AttemptReconnect(c) ==
  [c EXCEPT !.reconnectAttempts = @ + 1,
            !.connectionState = "reconnecting",
            !.timers = @ + 1,
            !.latestTimer = TRUE]

\* the onopen handler installed by setupWebSocketHandlers
OnOpen(c) ==
  [c EXCEPT !.connectionState = "connected",
            !.reconnectAttempts = 0,
            !.heartbeat = TRUE]

\* the onclose handler installed by setupWebSocketHandlers
OnClose(c) ==
  LET c1 == [c EXCEPT !.connectionState = "disconnected", !.heartbeat = FALSE]
  IN IF c1.autoReconnect /\ c1.reconnectAttempts < MaxReconnectAttempts
     THEN AttemptReconnect(c1) ELSE c1

\* a request promise and its table entry: the state of the promise, how
\* often resolve or reject was called on it, whether its timeout is pending,
\* whether the message was sent, and whether a response was delivered
NewCall(sent) ==
  [state |-> IF sent THEN "pending" ELSE "rejected",
   settles |-> IF sent THEN 0 ELSE 1,
   timer |-> TRUE,
   sent |-> sent,
   answered |-> FALSE]

\* sendMessage would not throw
CanSend(c) == c.ws # 0 /\ c.sockets[c.ws].ready = "open"

\* callViaWebSocket of a request (not a notification), past the test of the
\* connection state: the id, the timeout, the table entry, sendMessage; when
\* sendMessage throws the executor rejects the promise and the entry stays
CallViaWebSocket(c) ==
  LET id == c.requestId + 1
  IN [c EXCEPT !.requestId = id,
               !.pendingRequests = @ \cup {id},
               !.calls = [k \in DOMAIN c.calls \cup {id} |->
                            IF k = id THEN NewCall(CanSend(c)) ELSE c.calls[k]]]

\* variant: handleMessage leaves the timeout of the request running
HandleMessage_KeepsTimeout(c, id, isError) ==
  IF id \notin c.pendingRequests THEN [c EXCEPT !.calls[id].answered = TRUE]
  ELSE [c EXCEPT !.pendingRequests = @ \ {id},
                 !.calls[id] = [@ EXCEPT
                    !.answered = TRUE,
                    !.settles = @ + 1,
                    !.state = IF @ # "pending" THEN @
                              ELSE IF isError THEN "rejected" ELSE "resolved"]]
\* handleMessage(data) for a response with id `id`
HandleMessage(c, id, isError) ==
  IF id \notin c.pendingRequests THEN [c EXCEPT !.calls[id].answered = TRUE]
  ELSE [c EXCEPT !.pendingRequests = @ \ {id},
                 !.calls[id] = [@ EXCEPT
                    !.answered = TRUE,
                    !.timer = FALSE,
                    !.settles = @ + 1,
                    !.state = IF @ # "pending" THEN @
                              ELSE IF isError THEN "rejected" ELSE "resolved"]]

\* the timeout callback of callViaWebSocket: delete the entry and reject
RequestTimedOut(c, id) ==
  [c EXCEPT !.pendingRequests = @ \ {id},
            !.calls[id] = [@ EXCEPT
               !.timer = FALSE,
               !.settles = @ + 1,
               !.state = IF @ = "pending" THEN "rejected" ELSE @]]

(* ---------------------------------------------------------------------- *)
(* State                                                                   *)
(* ---------------------------------------------------------------------- *)
VARIABLES
  hook,           \* life cycle of the useNodes instance
  nodes,          \* nodesRef.current / the `nodes` state: the registry snapshot
  snapRef,        \* identity of the snapshot array
  loading,        \* the `loading` state
  error,          \* the `error` state
  subscribed,     \* handleWebSocketData is in wsService.listeners
  intervalActive, \* the 2-second interval is set
  onlineNodes,    \* wsService.onlineNodes, the presence set
  nodeData,       \* wsService.nodeData
  pollsInFlight,  \* fetchLatestStatus calls awaiting rpc2Client.call
  stalePolls,     \* history: how many of them were issued before a poll already answered
  pendingCalls,   \* keys of the dedup map pendingCalls
  rpcGetNodes,    \* outstanding remote calls of common:getNodes
  fetchWaiters,   \* fetchNodes invocations awaiting apiService.getNodes()
  clock,          \* Date.now()
  lastOp,         \* history: the last handler that ran
  mOld,           \* mergeRecords: timestamps of oldRecords
  mNew,           \* mergeRecords: timestamps of newRecords
  mRange,         \* mergeRecords: rangeHours
  mNow,           \* mergeRecords: Date.now() at the call
  mResult,        \* mergeRecords: the returned array
  mPhase,         \* mergeRecords: "idle", "called" or "returned"
  uRecords,       \* computeUptime: timestamps of records
  uRange,         \* computeUptime: rangeHours
  uNow,           \* computeUptime: Date.now() at the call
  uResult,        \* computeUptime: the returned UptimeResult
  uPhase,         \* computeUptime: "idle", "called" or "returned"
  uvMounted,      \* UptimeView is mounted
  uvRange,        \* UptimeView: range.hours
  rows,           \* LazyNodeRow per uuid: isVisible, fetchedRef, timer, doFetch
  cache,          \* the module-level _cache
  timerCalls,     \* refresh-timer callbacks awaiting getLoadHistory, per uuid
  uvNow,          \* Date.now() of the uptime view
  refreshes,      \* history: number of handleRefresh calls so far
  rawOnlineUuids, \* RecentStatsProvider: the onlineUuids prop
  stable,         \* useStableUuids: prevKey.current, ref.current, its identity
  sparklineMap,   \* the sparklineMap state
  fetcher,        \* fetchingRef.current and the running fetchAll loop
  spTimer,        \* the 30-second interval: its id and the uuids it closes over
  spOp,           \* history: the last handler of the provider
  rpcClient,      \* the RPC2Client object and its sockets, timers and promises
  rcOp            \* history: the last operation or event of the client

vars == <<hook, nodes, snapRef, loading, error, subscribed, intervalActive,
          onlineNodes, nodeData, pollsInFlight, stalePolls, pendingCalls,
          rpcGetNodes,
          fetchWaiters, clock, lastOp, mOld, mNew, mRange, mNow, mResult,
          mPhase, uRecords, uRange, uNow, uResult, uPhase, uvMounted, uvRange,
          rows, cache, timerCalls, uvNow, refreshes, rawOnlineUuids, stable,
          sparklineMap, fetcher, spTimer, spOp, rpcClient, rcOp>>

registryVars == <<nodes, snapRef, loading, error>>
serviceVars == <<onlineNodes, nodeData>>
dedupVars == <<pendingCalls, rpcGetNodes, fetchWaiters>>
mergeVars == <<mOld, mNew, mRange, mNow, mResult, mPhase>>
uptimeVars == <<uRecords, uRange, uNow, uResult, uPhase>>
cacheVars == <<uvMounted, uvRange, rows, cache, timerCalls, uvNow, refreshes>>
\* everything outside the useNodes hook and its services
sparkVars == <<rawOnlineUuids, stable, sparklineMap, fetcher, spTimer, spOp>>
rpcVars == <<rpcClient, rcOp>>
restVars == <<mergeVars, uptimeVars, cacheVars, sparkVars, rpcVars>>
hookVars == <<hook, nodes, snapRef, loading, error, subscribed, intervalActive,
              onlineNodes, nodeData, pollsInFlight, stalePolls, pendingCalls,
          rpcGetNodes,
              fetchWaiters, clock, lastOp>>

\* history record: the handler, and for "apply" whether the payload is the
\* one the previous handler applied
Op(name) == [op |-> name, repeat |-> FALSE, stale |-> FALSE]

\* no mergeRecords call in progress
MergeIdle ==
  /\ mOld = <<>>
  /\ mNew = <<>>
  /\ mRange = 1
  /\ mNow = 0
  /\ mResult = <<>>
  /\ mPhase = "idle"

\* the useNodes instance and the services before mounting
HookInit ==
  /\ hook = "init"
  /\ nodes = <<>>
  /\ snapRef = 0
  /\ loading = FALSE
  /\ error = NoError
  /\ subscribed = FALSE
  /\ intervalActive = FALSE
  /\ onlineNodes = {}
  /\ nodeData = <<>>
  /\ pollsInFlight = 0
  /\ stalePolls = 0
  /\ pendingCalls = {}
  /\ rpcGetNodes = 0
  /\ fetchWaiters = 0
  /\ clock = 0
  /\ lastOp = Op("init")

\* no UptimeResult yet
NoResult == [noresult |-> TRUE]

\* no computeUptime call in progress
UptimeIdle ==
  /\ uRecords = <<>>
  /\ uRange = 24
  /\ uNow = 0
  /\ uResult = NoResult
  /\ uPhase = "idle"

\* the page before UptimeView is mounted
CacheIdle ==
  /\ uvMounted = FALSE
  /\ uvRange = RangeOptions[1]
  /\ rows = [u \in Ids |-> NewRow(NoCall)]
  /\ cache = NoCache
  /\ timerCalls = [u \in Ids |-> NoCall]
  /\ uvNow = PageOpenedAt
  /\ refreshes = 0

\* history record of the provider: the handler, the prop before a render,
\* and the uuids whose fetched series a batch did not store
SpOp(name, prev, short) == [op |-> name, prev |-> prev, short |-> short]

\* useStableUuids at the first render: `useRef([])` and `useRef(key)`, so the
\* test `prevKey.current !== key` fails and ref.current stays []
FirstRender(uuids) ==
  [prevKey |-> JoinKey(SortUuids(uuids)), current |-> <<>>, ref |-> 0]

\* RecentStatsProvider after its first render with onlineUuids = uuids: the
\* mount effects called fetchAll and set the interval with the stable array
SparkMounted(uuids) ==
  /\ rawOnlineUuids = uuids
  /\ stable = FirstRender(uuids)
  /\ sparklineMap = <<>>
  /\ fetcher = FetchAllStart(FirstRender(uuids).current,
                             [fetchingRef |-> FALSE, cycle |-> NoCycle])
  /\ spTimer = [id |-> 0, uuids |-> FirstRender(uuids).current]
  /\ spOp = SpOp("init", <<>>, {})

\* the provider as App mounts it, while the registry is still empty
SparkIdle == SparkMounted(<<>>)

\* history record of the client: the operation or event, and the socket of
\* an event together with whether it was the socket in _ws
RcOp(name, sock, current) == [op |-> name, sock |-> sock, current |-> current]

\* the client after its constructor: autoConnect() has called connect()
RpcIdle ==
  /\ rpcClient = Connect(NewClient)
  /\ rcOp = RcOp("new", 0, FALSE)

Init == HookInit /\ MergeIdle /\ UptimeIdle /\ CacheIdle /\ SparkIdle /\ RpcIdle

(* ---------------------------------------------------------------------- *)
(* Operations                                                              *)
(* ---------------------------------------------------------------------- *)
\* apiService.getNodes(): dedup('getNodes', ...) either returns the pending
\* promise or starts the remote call and registers its promise
GetNodesCall ==
  IF DedupExisting("getNodes", pendingCalls)
  THEN UNCHANGED <<pendingCalls, rpcGetNodes>>
  ELSE /\ rpcGetNodes' = rpcGetNodes + 1
       /\ pendingCalls' = pendingCalls \cup {"getNodes"}

\* fetchNodes up to its await
FetchNodesStart ==
  /\ fetchWaiters < MaxCallers
  /\ loading' = TRUE
  /\ error' = NoError
  /\ GetNodesCall
  /\ fetchWaiters' = fetchWaiters + 1

\* mounting useNodes: the effects run fetchNodes(), subscribe the handler,
\* wsService.connect() (the initial fetchLatestStatus) and set the interval
Mount ==
  /\ hook = "init"
  /\ hook' = "mounted"
  /\ FetchNodesStart
  /\ subscribed' = TRUE
  /\ pollsInFlight' = pollsInFlight + 1
  /\ intervalActive' = TRUE
  /\ UNCHANGED stalePolls
  /\ lastOp' = Op("mount")
  /\ UNCHANGED <<nodes, snapRef, serviceVars, clock>>
  /\ UNCHANGED restVars

\* refreshNodes()
RefreshNodes ==
  /\ hook = "mounted"
  /\ FetchNodesStart
  /\ lastOp' = Op("refresh")
  /\ UNCHANGED <<hook, nodes, snapRef, subscribed, intervalActive, serviceVars,
                 pollsInFlight, stalePolls, clock>>
  /\ UNCHANGED restVars

\* the remote call of common:getNodes settles: the shared promise settles,
\* finally() removes the dedup entry, and every awaiting fetchNodes resumes
\* (all of them with the same value, in consecutive microtasks)
GetNodesSettle(outcome) ==
  /\ rpcGetNodes > 0
  /\ rpcGetNodes' = rpcGetNodes - 1
  /\ pendingCalls' = pendingCalls \ {"getNodes"}
  /\ fetchWaiters' = 0
  /\ LET settled == ApiGetNodes(outcome)
     IN IF settled.rejected
        THEN /\ error' = FetchErrorMessage
             /\ loading' = FALSE
             /\ UNCHANGED <<nodes, snapRef>>
             /\ lastOp' = Op("loaderror")
        ELSE LET nws == NodesWithStatus(settled.value, nodes, snapRef)
             IN /\ nodes' = nws
                /\ snapRef' = NewRef(0, LiveRefs(nodes, snapRef))
                /\ loading' = FALSE
                /\ error' = error
                /\ lastOp' = Op(IF outcome.kind = "reject" THEN "loadfail"
                                ELSE "load")
  /\ UNCHANGED <<hook, subscribed, intervalActive, serviceVars, pollsInFlight,
                 stalePolls,
                 clock>>
  /\ UNCHANGED restVars

GetNodesResolve == \E r \in NodesResults : GetNodesSettle(RpcOk(r))
GetNodesResolveNull == GetNodesSettle(RpcNull)
GetNodesReject == GetNodesSettle(RpcReject)

\* the interval callback: `if (getOnlineNodes().length > 0) wsService.send('get')`
Tick ==
  /\ intervalActive
  /\ IF TickPolls(onlineNodes)
     THEN /\ pollsInFlight < MaxInFlight
          /\ pollsInFlight' = pollsInFlight + 1
          /\ lastOp' = Op("tickpoll")
     ELSE /\ UNCHANGED pollsInFlight
          /\ lastOp' = Op("tickskip")
  /\ UNCHANGED stalePolls
  /\ UNCHANGED <<hook, registryVars, subscribed, intervalActive, serviceVars,
                 dedupVars, clock>>
  /\ UNCHANGED restVars

\* handleWebSocketData({online, data})
HandleWebSocketData(online, data) ==
  LET nextNodes == NextNodes(nodes, snapRef, online, data, clock)
  IN IF Changed(nodes, nextNodes)
     THEN /\ nodes' = nextNodes
          /\ snapRef' = NewRef(0, LiveRefs(nodes, snapRef))
     ELSE UNCHANGED <<nodes, snapRef>>

\* fetchLatestStatus after its await, with a result: the service stores the
\* presence set and the data map and notifies the listeners
PollResolve ==
  \E result \in PollResults, k \in 1..pollsInFlight :
    /\ pollsInFlight > 0
    /\ pollsInFlight' = pollsInFlight - 1
    /\ stalePolls' = StaleAfterResult(k, stalePolls)
    /\ LET online == OnlineList(result)
           data == DataMap(result, clock)
       IN /\ onlineNodes' = online
          /\ nodeData' = data
          /\ IF subscribed
             THEN /\ HandleWebSocketData(online, data)
                  /\ lastOp' = [op |-> "apply",
                                repeat |-> /\ lastOp.op = "apply"
                                           /\ online = onlineNodes
                                           /\ data = nodeData,
                                stale |-> k <= stalePolls]
             ELSE /\ UNCHANGED <<nodes, snapRef>>
                  /\ lastOp' = [op |-> "unheard", repeat |-> FALSE,
                                stale |-> k <= stalePolls]
    /\ UNCHANGED <<hook, loading, error, subscribed, intervalActive, dedupVars,
                   clock, restVars>>

\* fetchLatestStatus: the remote call rejects (catch) or yields no result
PollFail(kind) ==
  /\ pollsInFlight > 0
  /\ pollsInFlight' = pollsInFlight - 1
  /\ \E k \in 1..pollsInFlight : stalePolls' = StaleAfterFailure(k, stalePolls)
  /\ onlineNodes' = OnlineAfterFailure(onlineNodes)
  /\ lastOp' = Op(kind)
  /\ UNCHANGED <<hook, registryVars, subscribed, intervalActive, nodeData,
                 dedupVars, clock>>
  /\ UNCHANGED restVars

PollReject == PollFail("pollfail")
PollNull == PollFail("pollnull")

\* WebSocketStatus.handleReconnect (a button of the mounted app):
\* wsService.disconnect() clears a polling interval the service never sets;
\* wsService.connect() fetches once
HandleReconnect ==
  /\ hook = "mounted"
  /\ pollsInFlight < MaxInFlight
  /\ pollsInFlight' = pollsInFlight + 1
  /\ lastOp' = Op("reconnect")
  /\ UNCHANGED stalePolls
  /\ UNCHANGED <<hook, registryVars, subscribed, intervalActive, serviceVars,
                 dedupVars, clock>>
  /\ UNCHANGED restVars

\* the effect cleanup: clearInterval(intervalId); unsubscribe()
Unmount ==
  /\ hook = "mounted"
  /\ hook' = "unmounted"
  /\ intervalActive' = FALSE
  /\ subscribed' = FALSE
  /\ lastOp' = Op("unmount")
  /\ UNCHANGED <<registryVars, serviceVars, pollsInFlight, stalePolls, dedupVars,
                 clock>>
  /\ UNCHANGED restVars

\* time passes
AdvanceClock ==
  /\ clock < MaxClock
  /\ clock' = clock + 1
  /\ UNCHANGED <<hook, registryVars, subscribed, intervalActive, serviceVars,
                 pollsInFlight, stalePolls, dedupVars, lastOp>>
  /\ UNCHANGED restVars

Next ==
  \/ Mount
  \/ RefreshNodes
  \/ GetNodesResolve
  \/ GetNodesResolveNull
  \/ GetNodesReject
  \/ Tick
  \/ PollResolve
  \/ PollReject
  \/ PollNull
  \/ HandleReconnect
  \/ Unmount
  \/ AdvanceClock

Spec == Init /\ [][Next]_vars

(* ---------------------------------------------------------------------- *)
(* mergeRecords as a function: inputs drawn from bounded sets              *)
(* ---------------------------------------------------------------------- *)
TimeSeqs == UNION {[1..n -> TimeStrings] : n \in 0..MaxRecords}
RangeHoursSet == {1, 2}
NowSet == {3 * HourMs, 3 * HourMs + 1}

MergeInit ==
  /\ HookInit
  /\ RpcIdle
  /\ UptimeIdle
  /\ CacheIdle
  /\ SparkIdle
  /\ mOld \in TimeSeqs
  /\ mNew \in TimeSeqs
  /\ mRange \in RangeHoursSet
  /\ mNow \in NowSet
  /\ mResult = <<>>
  /\ mPhase = "called"

MergeCall ==
  /\ mPhase = "called"
  /\ mResult' = mergeRecords(Records(mOld, "old"), Records(mNew, "new"),
                             mRange, mNow)
  /\ mPhase' = "returned"
  /\ UNCHANGED <<mOld, mNew, mRange, mNow, hookVars, uptimeVars, cacheVars,
                 sparkVars, rpcVars>>

MergeNext == MergeCall

MergeSpec == MergeInit /\ [][MergeNext]_vars

(* ---------------------------------------------------------------------- *)
(* computeUptime as a function: inputs drawn from bounded sets             *)
(* ---------------------------------------------------------------------- *)
UptimeRanges == {0, 1, 2, 24, 25, 168, 169}

UptimeInit ==
  /\ HookInit
  /\ RpcIdle
  /\ MergeIdle
  /\ CacheIdle
  /\ SparkIdle
  /\ uRecords \in TimeSeqs
  /\ uRange \in UptimeRanges
  /\ uNow \in NowSet
  /\ uResult = NoResult
  /\ uPhase = "called"

UptimeCall ==
  /\ uPhase = "called"
  /\ uResult' = computeUptime(Records(uRecords, "rec"), uRange, uNow)
  /\ uPhase' = "returned"
  /\ UNCHANGED <<uRecords, uRange, uNow, hookVars, mergeVars, cacheVars,
                 sparkVars, rpcVars>>

UptimeNext == UptimeCall

UptimeSpec == UptimeInit /\ [][UptimeNext]_vars

(* ---------------------------------------------------------------------- *)
(* UptimeView and its LazyNodeRows: the operations                         *)
(* ---------------------------------------------------------------------- *)
\* the part of the state that the effects of the rows read and write
World == [cache |-> cache, rows |-> rows]
\* every effect of a row has a changed dependency (mount, range switch)
AllEffects == [check |-> TRUE, fetch |-> TRUE, timer |-> TRUE, force |-> FALSE]
\* only forceKey changed: the fetch effect re-runs with isForceRefresh
ForceFetch == [check |-> FALSE, fetch |-> TRUE, timer |-> FALSE, force |-> TRUE]

\* UptimeView mounts with rangeIdx 0; every row renders and runs its effects
UvMount ==
  /\ ~uvMounted
  /\ uvMounted' = TRUE
  /\ uvRange' = RangeOptions[1]
  /\ LET w == RunEffects(World, 1, AllEffects, RangeOptions[1], uvNow, refreshes)
     IN /\ cache' = w.cache
        /\ rows' = w.rows
  /\ UNCHANGED <<timerCalls, uvNow, refreshes>>
  /\ UNCHANGED <<hookVars, mergeVars, uptimeVars, sparkVars, rpcVars>>

\* UptimeView unmounts: the cleanups cancel the doFetch closures and clear
\* the intervals; the state of the rows is discarded
UvUnmount ==
  /\ uvMounted
  /\ uvMounted' = FALSE
  /\ uvRange' = RangeOptions[1]
  /\ rows' = [u \in Ids |-> NewRow(Cancel(rows[u].fetchCall))]
  /\ UNCHANGED <<cache, timerCalls, uvNow, refreshes>>
  /\ UNCHANGED <<hookVars, mergeVars, uptimeVars, sparkVars, rpcVars>>

\* the IntersectionObserver callback of row u: setIsVisible(true), then the
\* fetch effect and the timer effect re-run
BecomeVisible(u) ==
  /\ uvMounted
  /\ ~rows[u].isVisible
  /\ LET w0 == [World EXCEPT !.rows[u].isVisible = TRUE]
         w1 == FetchEffect(w0, u, uvRange, FALSE, uvNow, refreshes)
         w2 == TimerEffect(w1, u, uvRange)
     IN /\ cache' = w2.cache
        /\ rows' = w2.rows
  /\ UNCHANGED <<uvMounted, uvRange, timerCalls, uvNow, refreshes>>
  /\ UNCHANGED <<hookVars, mergeVars, uptimeVars, sparkVars, rpcVars>>

\* a click on another range button: setRangeIdx, every row re-runs its
\* three effects with the new rangeHours
SetRange ==
  /\ uvMounted
  /\ \E i \in 1..Len(RangeOptions) :
       /\ RangeOptions[i] # uvRange
       /\ uvRange' = RangeOptions[i]
       /\ LET w == RunEffects(World, 1, AllEffects, RangeOptions[i], uvNow,
                              refreshes)
          IN /\ cache' = w.cache
             /\ rows' = w.rows
  /\ UNCHANGED <<uvMounted, timerCalls, uvNow, refreshes>>
  /\ UNCHANGED <<hookVars, mergeVars, uptimeVars, sparkVars, rpcVars>>

\* handleRefresh: `_cache = null; setForceKey(k => k + 1)`, then the fetch
\* effect of every row re-runs with isForceRefresh
HandleRefresh ==
  /\ uvMounted
  /\ refreshes < MaxRefresh
  /\ refreshes' = refreshes + 1
  /\ LET w == RunEffects([World EXCEPT !.cache = NoCache], 1, ForceFetch,
                         uvRange, uvNow, refreshes + 1)
     IN /\ cache' = w.cache
        /\ rows' = w.rows
  /\ UNCHANGED <<uvMounted, uvRange, timerCalls, uvNow>>
  /\ UNCHANGED <<hookVars, mergeVars, uptimeVars, sparkVars, rpcVars>>

\* doFetch of row u resumes after `await apiService.getLoadHistory`
FetchSettle(u, outcome) ==
  /\ rows[u].fetchCall # NoCall
  /\ LET call == rows[u].fetchCall
         newRecords == RecordsOrEmpty(ApiGetLoadHistory(outcome))
         finalRecords ==
           IF call.isIncremental /\ call.cached # NoEntry
           THEN mergeRecords(call.cached.records, newRecords, call.rangeHours,
                             uvNow)
           ELSE newRecords
     IN IF call.cancelled
        THEN /\ rows' = [rows EXCEPT ![u].fetchCall = NoCall]
             /\ UNCHANGED cache
        ELSE /\ cache' = [cache EXCEPT !.nodes[u] =
                            NodeCache(finalRecords, call.rangeHours, uvNow)]
             /\ rows' = [rows EXCEPT ![u].fetchCall = NoCall,
                                     ![u].fetchedRef = TRUE]
  /\ UNCHANGED <<uvMounted, uvRange, timerCalls, uvNow, refreshes>>
  /\ UNCHANGED <<hookVars, mergeVars, uptimeVars, sparkVars, rpcVars>>

FetchResolve ==
  \E u \in Ids :
    FetchSettle(u, RpcOk(GetRecordsResult(rows[u].fetchCall.fetchHours, uvNow,
                                          rows[u].fetchCall.stamp)))
FetchReject == \E u \in Ids : FetchSettle(u, RpcReject)

\* the interval callback of row u up to `await apiService.getLoadHistory`
TimerTick(u) ==
  /\ rows[u].timer # 0
  /\ timerCalls[u] = NoCall
  /\ IF cache = NoCache
     THEN UNCHANGED timerCalls
     ELSE IF cache.rangeHours # rows[u].timer
     THEN UNCHANGED timerCalls
     ELSE IF \/ cache.nodes[u] = NoEntry
             \/ uvNow - cache.nodes[u].fetchedAt < NODE_REFRESH_INTERVAL
     THEN UNCHANGED timerCalls
     ELSE timerCalls' =
            [timerCalls EXCEPT ![u] =
               [cached |-> cache.nodes[u],
                rangeHours |-> rows[u].timer,
                deltaHours |-> DeltaHours(cache.nodes[u].fetchedAt, uvNow),
                stamp |-> refreshes]]
  /\ UNCHANGED <<uvMounted, uvRange, rows, cache, uvNow, refreshes>>
  /\ UNCHANGED <<hookVars, mergeVars, uptimeVars, sparkVars, rpcVars>>

\* the interval callback of row u resumes after the await; `_cache!.nodes`
\* throws inside the try block when _cache is null
TimerSettle(u, outcome) ==
  /\ timerCalls[u] # NoCall
  /\ LET call == timerCalls[u]
         newRecords == RecordsOrEmpty(ApiGetLoadHistory(outcome))
         merged == mergeRecords(call.cached.records, newRecords,
                                call.rangeHours, uvNow)
     IN IF cache = NoCache
        THEN UNCHANGED cache
        ELSE cache' = [cache EXCEPT !.nodes[u] =
                         NodeCache(merged, call.rangeHours, uvNow)]
  /\ timerCalls' = [timerCalls EXCEPT ![u] = NoCall]
  /\ UNCHANGED <<uvMounted, uvRange, rows, uvNow, refreshes>>
  /\ UNCHANGED <<hookVars, mergeVars, uptimeVars, sparkVars, rpcVars>>

TimerResolve ==
  \E u \in Ids :
    TimerSettle(u, RpcOk(GetRecordsResult(timerCalls[u].deltaHours, uvNow,
                                          timerCalls[u].stamp)))
TimerReject == \E u \in Ids : TimerSettle(u, RpcReject)

\* two minutes pass
UvAdvance ==
  /\ uvNow < PageOpenedAt + MaxElapsed * NODE_REFRESH_INTERVAL
  /\ uvNow' = uvNow + NODE_REFRESH_INTERVAL
  /\ UNCHANGED <<uvMounted, uvRange, rows, cache, timerCalls, refreshes>>
  /\ UNCHANGED <<hookVars, mergeVars, uptimeVars, sparkVars, rpcVars>>

CacheNext ==
  \/ UvMount
  \/ UvUnmount
  \/ \E u \in Ids : BecomeVisible(u)
  \/ SetRange
  \/ HandleRefresh
  \/ FetchResolve
  \/ FetchReject
  \/ \E u \in Ids : TimerTick(u)
  \/ TimerResolve
  \/ TimerReject
  \/ UvAdvance

CacheSpec == Init /\ [][CacheNext]_vars

(* ---------------------------------------------------------------------- *)
(* RecentStatsProvider: the operations                                     *)
(* ---------------------------------------------------------------------- *)
\* the arrays the parent passes as onlineUuids
RawArrays ==
  {<<>>, <<"A">>, <<"B">>, <<"A", "B">>, <<"B", "A">>, <<"E", "D", "C", "B", "A">>}

\* the provider is mounted with any of them
SparkInit ==
  /\ HookInit
  /\ RpcIdle
  /\ MergeIdle
  /\ UptimeIdle
  /\ CacheIdle
  /\ \E uuids \in RawArrays : SparkMounted(uuids)

\* the parent re-renders the provider with a new onlineUuids array; the two
\* effects re-run when useStableUuids returns another array
SpRender ==
  \E uuids \in RawArrays :
    LET st == useStableUuids(uuids, stable)
    IN /\ rawOnlineUuids' = uuids
       /\ stable' = st
       /\ IF st.ref # stable.ref
          THEN /\ fetcher' = FetchAllStart(st.current, fetcher)
               /\ spTimer' = [id |-> 1 - spTimer.id, uuids |-> st.current]
          ELSE UNCHANGED <<fetcher, spTimer>>
       /\ spOp' = SpOp("render", rawOnlineUuids, {})
       /\ UNCHANGED sparklineMap
       /\ UNCHANGED <<hookVars, mergeVars, uptimeVars, cacheVars, rpcVars>>

\* the interval callback: fetchAll(onlineUuids) of the closure
SpTick ==
  /\ fetcher' = FetchAllStart(spTimer.uuids, fetcher)
  /\ spOp' = SpOp("tick", <<>>, {})
  /\ UNCHANGED <<rawOnlineUuids, stable, sparklineMap, spTimer>>
  /\ UNCHANGED <<hookVars, mergeVars, uptimeVars, cacheVars, rpcVars>>

\* the request of the running batch for uuid u settles: its series is kept
\* (empty when the call failed); when it was the last one of the batch,
\* Promise.all resolves: setSparklineMap, then the next batch or `finally`
SpRequestSettle(u, outcome) ==
  /\ fetcher.cycle # NoCycle
  /\ u \in fetcher.cycle.pending
  /\ LET c == fetcher.cycle
         series == CpuValues(ApiGetNodeRecentStats(outcome))
         data == [x \in DOMAIN c.data \cup {u} |->
                    IF x = u THEN series ELSE c.data[x]]
         pending == c.pending \ {u}
     IN IF pending # {}
        THEN /\ fetcher' = [fetcher EXCEPT !.cycle.pending = pending,
                                           !.cycle.data = data]
             /\ spOp' = SpOp("settle", <<>>, {})
             /\ UNCHANGED sparklineMap
        ELSE /\ sparklineMap' = NextSparklineMap(sparklineMap, Batch(c), data)
             /\ fetcher' = IF c.i + BATCH_SIZE < Len(c.uuids)
                           THEN [fetcher EXCEPT
                                   !.cycle = StartBatch(c.uuids, c.i + BATCH_SIZE)]
                           ELSE [fetchingRef |-> FALSE, cycle |-> NoCycle]
             /\ spOp' = SpOp("batch", <<>>,
                             {x \in DOMAIN data : Len(data[x]) < 2})
  /\ UNCHANGED <<rawOnlineUuids, stable, spTimer>>
  /\ UNCHANGED <<hookVars, mergeVars, uptimeVars, cacheVars, rpcVars>>

SpSettle ==
  \E u \in Members(SpIdSeq) : \E outcome \in RecentOutcomesOf(u) :
    SpRequestSettle(u, outcome)

SparkNext ==
  \/ SpRender
  \/ SpTick
  \/ SpSettle

SparkSpec == SparkInit /\ [][SparkNext]_vars

(* ---------------------------------------------------------------------- *)
(* RPC2Client: the operations and the socket events                        *)
(* ---------------------------------------------------------------------- *)
otherVars == <<hookVars, mergeVars, uptimeVars, cacheVars, sparkVars>>

\* autoConnect(), from call() or from wsService.connect(): connect() when
\* the client is DISCONNECTED
RcAutoConnect ==
  /\ rpcClient.connectionState = "disconnected"
  /\ FreeSlots(rpcClient) # {}
  /\ rpcClient' = Connect(rpcClient)
  /\ rcOp' = RcOp("connect", 0, FALSE)
  /\ UNCHANGED otherVars

\* a timeout set by attemptReconnect fires: connect()
RcReconnectTimer ==
  /\ rpcClient.timers > 0
  /\ ConnectReturns(rpcClient) \/ FreeSlots(rpcClient) # {}
  /\ \E latest \in BOOLEAN :
       /\ latest => rpcClient.latestTimer
       /\ ~latest => rpcClient.timers > (IF rpcClient.latestTimer THEN 1 ELSE 0)
       /\ rpcClient' = Connect([rpcClient EXCEPT
                                  !.timers = @ - 1,
                                  !.latestTimer = IF latest THEN FALSE ELSE @])
  /\ rcOp' = RcOp("timer", 0, FALSE)
  /\ UNCHANGED otherVars

\* disconnect()
RcDisconnect ==
  /\ rpcClient' = Disconnect(rpcClient)
  /\ rcOp' = RcOp("disconnect", 0, FALSE)
  /\ UNCHANGED otherVars

\* reconnect()
RcReconnect ==
  /\ FreeSlots(Disconnect(rpcClient)) # {}
  /\ rpcClient' = Reconnect(rpcClient)
  /\ rcOp' = RcOp("reconnect", 0, FALSE)
  /\ UNCHANGED otherVars

\* the open event of socket i: onopen, and handleOpen resolves connect()
SocketOpen(i) ==
  /\ rpcClient.sockets[i].ready = "connecting"
  /\ rpcClient' = [OnOpen(rpcClient) EXCEPT
                     !.sockets[i] = [ready |-> "open", awaited |-> FALSE]]
  /\ rcOp' = RcOp("open", i, rpcClient.ws = i)
  /\ UNCHANGED otherVars

\* the error event of socket i, whose connection failed or was closed
\* before it opened: onerror only reports; handleError rejects connect()
SocketError(i) ==
  /\ rpcClient.sockets[i].ready \in {"connecting", "closing"}
  /\ rpcClient.sockets[i].awaited
  /\ rpcClient' = [ConnectFailed(rpcClient, i) EXCEPT
                     !.sockets[i].ready = "closing"]
  /\ rcOp' = RcOp("error", i, rpcClient.ws = i)
  /\ UNCHANGED otherVars

\* the 10-second timeout inside connect() fires for socket i
ConnectTimeout(i) ==
  /\ rpcClient.sockets[i].ready = "connecting"
  /\ rpcClient.sockets[i].awaited
  /\ rpcClient' = ConnectFailed(rpcClient, i)
  /\ rcOp' = RcOp("connecttimeout", i, rpcClient.ws = i)
  /\ UNCHANGED otherVars

\* the close event of socket i (an open socket dropped by the peer, or a
\* socket that was closing): onclose
SocketClose(i) ==
  /\ \/ rpcClient.sockets[i].ready = "open"
     \/ rpcClient.sockets[i].ready = "closing" /\ ~rpcClient.sockets[i].awaited
  /\ rpcClient.autoReconnect /\ rpcClient.reconnectAttempts < MaxReconnectAttempts
       => rpcClient.timers < MaxTimers
  /\ rpcClient' = [OnClose(rpcClient) EXCEPT !.sockets[i] = ClosedSocket]
  /\ rcOp' = RcOp("close", i, rpcClient.ws = i)
  /\ UNCHANGED otherVars

\* callViaWebSocket(method, params) for a request
RcCall ==
  /\ rpcClient.connectionState = "connected"
  /\ rpcClient.requestId < MaxRequests
  /\ rpcClient' = CallViaWebSocket(rpcClient)
  /\ rcOp' = RcOp("call", 0, FALSE)
  /\ UNCHANGED otherVars

\* a message event carrying the response to request id: handleMessage
RcResponse(id, isError) ==
  /\ id \in DOMAIN rpcClient.calls
  /\ rpcClient.calls[id].sent
  /\ ~rpcClient.calls[id].answered
  /\ rpcClient' = HandleMessage(rpcClient, id, isError)
  /\ rcOp' = RcOp("response", id, id \in rpcClient.pendingRequests)
  /\ UNCHANGED otherVars

\* the timeout of request id fires
RcRequestTimeout(id) ==
  /\ id \in DOMAIN rpcClient.calls
  /\ rpcClient.calls[id].timer
  /\ rpcClient' = RequestTimedOut(rpcClient, id)
  /\ rcOp' = RcOp("requesttimeout", id, FALSE)
  /\ UNCHANGED otherVars

RpcNext ==
  \/ RcAutoConnect
  \/ RcReconnectTimer
  \/ RcDisconnect
  \/ RcReconnect
  \/ \E i \in SocketSlots : SocketOpen(i)
  \/ \E i \in SocketSlots : SocketError(i)
  \/ \E i \in SocketSlots : ConnectTimeout(i)
  \/ \E i \in SocketSlots : SocketClose(i)
  \/ RcCall
  \/ \E id \in 1..MaxRequests, isError \in BOOLEAN : RcResponse(id, isError)
  \/ \E id \in 1..MaxRequests : RcRequestTimeout(id)

RpcSpec == Init /\ [][RpcNext]_vars

(* ====================================================================== *)
(* Properties                                                              *)
(* ====================================================================== *)
\* a step in which handleWebSocketData applied a payload
ApplyStep == lastOp'.op = "apply" /\ pollsInFlight' = pollsInFlight - 1
\* an entry of the snapshot is a new object after the step
Replaced(i) == nodes'[i].ref # nodes[i].ref
\* the numeric fields of a StatusRecord
NumericFields(st) ==
  {st.cpu.usage, st.ram.used, st.ram.total, st.swap.used, st.swap.total,
   st.disk.used, st.disk.total, st.network.up, st.network.down,
   st.network.totalUp, st.network.totalDown, st.load.load1, st.load.load5,
   st.load.load15, st.uptime, st.process, st.connections.tcp,
   st.connections.udp}
\* the uuids of the registry entries that are online
RegistryOnline == {nodes[i].uuid : i \in {j \in 1..Len(nodes) : nodes[j].status = "online"}}

\* C1: when a payload is applied, an entry is replaced by a new object if and
\* only if its status or any field of its normalized StatusRecord (message
\* and report timestamp included) differs from the current one, and a new
\* snapshot is published if and only if some entry was replaced.
C1_ReplacedIffDiffers ==
  [][ApplyStep =>
       /\ Len(nodes') = Len(nodes)
       /\ \A i \in 1..Len(nodes) :
            Replaced(i) <=>
              \/ nodes[i].status # NewStatus(nodes[i].uuid, onlineNodes')
              \/ nodes[i].stats #
                   NewStats(RawStatsOf(nodes[i].uuid, nodeData'), clock)
       /\ (snapRef' # snapRef) <=> (\E i \in 1..Len(nodes) : Replaced(i))]_vars

\* C2: applying the payload that was applied immediately before replaces no
\* entry and publishes no snapshot.
C2_Idempotent ==
  [][(ApplyStep /\ lastOp.op = "apply"
        /\ onlineNodes' = onlineNodes /\ nodeData' = nodeData) =>
       (nodes' = nodes /\ snapRef' = snapRef)]_vars

C2_Witness ==
  /\ lastOp.op = "apply"
  /\ lastOp.repeat
  /\ \E i \in 1..Len(nodes) :
       nodes[i].status = "online" /\ nodes[i].stats # NoStats

\* C3: after a payload is applied, an entity is online exactly when its id
\* is in the payload's online set, whether or not data accompanies it.
C3_StatusFromOnlineSet ==
  lastOp.op = "apply" =>
    \A i \in 1..Len(nodes) :
      nodes[i].status = (IF nodes[i].uuid \in onlineNodes THEN "online"
                         ELSE "offline")

C3_Witness ==
  /\ lastOp.op = "apply"
  /\ \E i \in 1..Len(nodes) :
       /\ nodes[i].uuid \in DOMAIN nodeData
       /\ nodes[i].uuid \notin onlineNodes
       /\ nodes[i].stats # NoStats
       /\ nodes[i].status = "offline"

\* C4: a load whose remote getNodes call rejects leaves the previously loaded
\* registry snapshot unchanged and sets the error state.
C4_FailedLoadKeepsRegistry ==
  [][(lastOp'.op = "loadfail" /\ rpcGetNodes' = rpcGetNodes - 1
        /\ nodes # <<>>) =>
       (nodes' = nodes /\ snapRef' = snapRef /\ error' # NoError)]_vars

\* C5: a failed status poll changes neither the registry snapshot nor the
\* presence set, notifies nobody and leaves the interval timer running.
C5_FailedPollChangesNothing ==
  [][(lastOp'.op \in {"pollfail", "pollnull"}
        /\ pollsInFlight' = pollsInFlight - 1) =>
       /\ nodes' = nodes
       /\ snapRef' = snapRef
       /\ onlineNodes' = onlineNodes
       /\ nodeData' = nodeData
       /\ intervalActive' = intervalActive
       /\ subscribed' = subscribed]_vars

C5_Witness ==
  /\ lastOp.op = "pollfail"
  /\ intervalActive
  /\ onlineNodes # {}
  /\ RegistryOnline # {}

\* a step in which the interval callback called wsService.send('get')
TickPollStep == lastOp'.op = "tickpoll" /\ pollsInFlight' = pollsInFlight + 1

\* C6 (as stated): on a timer tick at which the registry has zero online
\* entities, get-latest-status is not invoked.
C6_NoPollWhenRegistryOffline ==
  [][RegistryOnline = {} => ~TickPollStep]_vars

\* C6 (amended): on a timer tick at which the presence set of the status
\* service is empty, get-latest-status is not invoked.
C6_NoPollWhenPresenceEmpty ==
  [][onlineNodes = {} => ~TickPollStep]_vars

C6_Witness ==
  /\ lastOp.op = "tickskip"
  /\ intervalActive
  /\ onlineNodes = {}
  /\ pollsInFlight = 0

\* C7: a successful load replaces the registry with exactly the fetched
\* entities, each offline and without a StatusRecord.
C7_LoadReplacesWholesale ==
  [][\A r \in NodesResults :
       GetNodesSettle(RpcOk(r)) =>
         LET keys == SelectSeq(IdSeq, LAMBDA k : k \in DOMAIN r)
         IN /\ Len(nodes') = Len(keys)
            /\ \A i \in 1..Len(keys) :
                 /\ nodes'[i].uuid = keys[i]
                 /\ nodes'[i].name = r[keys[i]].name
                 /\ nodes'[i].status = "offline"
                 /\ nodes'[i].stats = NoStats]_vars

C7_Witness ==
  /\ lastOp.op = "load"
  /\ \E i \in 1..Len(nodes) :
       /\ nodes[i].uuid \in onlineNodes
       /\ nodes[i].status = "offline"
       /\ nodes[i].stats = NoStats

\* C8: at most one remote getNodes request is outstanding, the dedup entry
\* exists exactly while it is, and every waiting load waits for it.
C8_SingleOutstandingGetNodes ==
  /\ rpcGetNodes <= 1
  /\ (rpcGetNodes = 1) <=> ("getNodes" \in pendingCalls)
  /\ fetchWaiters > 0 => rpcGetNodes = 1

C8_Witness ==
  /\ fetchWaiters = 2
  /\ rpcGetNodes = 1
  /\ nodes # <<>>

\* C9: every numeric field of every StatusRecord in the registry snapshot is
\* a number, never undefined or NaN.
C9_NumericFieldsAreNumbers ==
  \A i \in 1..Len(nodes) :
    nodes[i].stats # NoStats =>
      \A x \in NumericFields(nodes[i].stats) : x \in Nat

C9_Witness ==
  \E i \in 1..Len(nodes) :
    /\ nodes[i].stats # NoStats
    /\ nodes[i].uuid \in DOMAIN nodeData
    /\ nodes[i].stats.network.totalUp = 0
    /\ nodes[i].stats.cpu.usage = 0
    /\ nodes[i].stats.ram.total = 2

\* the timestamp strings of the inputs whose time is at or after the cutoff
MergeKept ==
  {str \in {mOld[k] : k \in 1..Len(mOld)} \cup {mNew[k] : k \in 1..Len(mNew)} :
     GeCutoff(DateParse(str), mNow - mRange * HourMs)}

\* C10: mergeRecords returns exactly one record for every distinct timestamp
\* string of old or new whose time is not older than now - rangeHours, no
\* other record, and the record of new when the timestamp occurs in both.
C10_MergeDedupPrune ==
  mPhase = "returned" =>
    /\ \A str \in MergeKept :
         Cardinality({i \in 1..Len(mResult) : mResult[i].time = str}) = 1
    /\ \A i \in 1..Len(mResult) :
         /\ mResult[i].time \in MergeKept
         /\ \/ /\ mResult[i].src = "new"
               /\ mResult[i].k \in 1..Len(mNew)
               /\ mNew[mResult[i].k] = mResult[i].time
            \/ /\ mResult[i].src = "old"
               /\ mResult[i].k \in 1..Len(mOld)
               /\ mOld[mResult[i].k] = mResult[i].time
               /\ \A k \in 1..Len(mNew) : mNew[k] # mResult[i].time

C10_Witness ==
  /\ mPhase = "returned"
  /\ mOld = <<"T1", "T2">>
  /\ mNew = <<"T2", "T3">>
  /\ mRange = 1
  /\ mNow = 3 * HourMs
  /\ Len(mResult) = 2
  /\ mResult[1] = [time |-> "T2", src |-> "new", k |-> 1]

(* ---------------------------------------------------------------------- *)
(* Incremental Time-Series Assembler                                       *)
(* ---------------------------------------------------------------------- *)
\* the refresh-timer callback of row u stores its merged records in this step
TimerMergeStep(u) ==
  /\ timerCalls[u] # NoCall
  /\ timerCalls'[u] = NoCall
  /\ cache # NoCache
\* an incremental doFetch of row u stores its merged records in this step
FetchMergeStep(u) ==
  /\ rows[u].fetchCall # NoCall
  /\ rows'[u].fetchCall = NoCall
  /\ ~rows[u].fetchCall.cancelled
  /\ rows[u].fetchCall.isIncremental
\* rangeHours of the call that settles in a merge step of row u
MergeStepRange(u) ==
  IF timerCalls[u] # NoCall /\ timerCalls'[u] = NoCall
  THEN timerCalls[u].rangeHours
  ELSE rows[u].fetchCall.rangeHours

\* C11: after every fetch-and-merge step the records stored in the entity's
\* cache entry have pairwise different timestamps, are in ascending timestamp
\* order, and none is older than now - rangeHours.
C11_MergedRecordsSortedUnique ==
  [][\A u \in Ids :
       (TimerMergeStep(u) \/ FetchMergeStep(u)) =>
         LET recs == cache'.nodes[u].records
         IN /\ \A i, j \in 1..Len(recs) : i # j => recs[i].time # recs[j].time
            /\ \A i, j \in 1..Len(recs) :
                 i < j => DateParse(recs[i].time) <= DateParse(recs[j].time)
            /\ \A i \in 1..Len(recs) :
                 GeCutoff(DateParse(recs[i].time),
                          uvNow - MergeStepRange(u) * HourMs)]_vars

\* C12: when the remote call of a time-series fetch rejects, the entity's
\* populated cache entry (records, result, fetchedAt) stays as it was, for a
\* doFetch as for a refresh-timer callback.
C12_FailedFetchKeepsEntry ==
  [][\A u \in Ids :
       /\ cache # NoCache
       /\ cache.nodes[u] # NoEntry
       /\ \/ TimerSettle(u, RpcReject)
          \/ FetchSettle(u, RpcReject)
       => /\ cache' # NoCache
          /\ cache'.nodes[u] = cache.nodes[u]]_vars

\* the entry holds the aggregate of its records for the window of rangeHours
\* that ends when it was fetched, and no record from before that window
ComputedFor(entry, rangeHours) ==
  /\ entry.result = computeUptime(entry.records, rangeHours, entry.fetchedAt)
  /\ \A i \in 1..Len(entry.records) :
       GeCutoff(DateParse(entry.records[i].time),
                entry.fetchedAt - rangeHours * HourMs)

\* C13: in every reachable state every entry of the cache was computed for
\* the cache's rangeHours; no fetch or background refresh started under
\* another range puts an entry computed for that range into the cache.
C13_EntriesOfCacheRange ==
  cache # NoCache =>
    \A u \in Ids :
      cache.nodes[u] # NoEntry => ComputedFor(cache.nodes[u], cache.rangeHours)

\* C14: after a user refresh the cache holds no record obtained before it:
\* every record of every entry comes from a request issued after the latest
\* handleRefresh, also when a call started before the refresh settles later.
C14_NothingFromBeforeRefresh ==
  cache # NoCache =>
    \A u \in Ids :
      cache.nodes[u] # NoEntry =>
        \A i \in 1..Len(cache.nodes[u].records) :
          cache.nodes[u].records[i].src = refreshes

\* C15: while a row that has been fetched once stays visible, its background
\* refresh timer is running for the current range, both after the row's own
\* first fetch and when the entry was found in the cache at mount.
C15_RefreshTimerRuns ==
  \A u \in Ids :
    /\ uvMounted
    /\ rows[u].isVisible
    /\ rows[u].fetchedRef
    /\ rows[u].fetchCall = NoCall
    => rows[u].timer = uvRange

\* C16: a time-series fetch is outstanding only for rows that have signalled
\* visibility; a user refresh starts fetches for the visible rows only.
C16_FetchOnlyWhenVisible ==
  \A u \in Ids :
    /\ rows[u].fetchCall # NoCall
    /\ ~rows[u].fetchCall.cancelled
    => rows[u].isVisible

(* ---------------------------------------------------------------------- *)
(* computeUptime                                                           *)
(* ---------------------------------------------------------------------- *)
\* the slot width in ms that the range calls for: 1 hour up to 24 hours,
\* 6 hours up to 168 hours, 24 hours beyond
UptimeSlotMs ==
  (IF uRange <= 24 THEN 1 ELSE IF uRange <= 168 THEN 6 ELSE 24) * HourMs
\* record j lies inside slot k (from 1) of the window [uNow - uRange, uNow]:
\* slot k begins (k - 1) slot widths after the window start and ends one
\* slot width later or at uNow
UptimeInSlot(j, k) ==
  LET t == DateParse(uRecords[j])
      windowStart == uNow - uRange * HourMs
  IN /\ t # NaN
     /\ windowStart + (k - 1) * UptimeSlotMs <= t
     /\ t < windowStart + k * UptimeSlotMs
     /\ t <= uNow

C18_ShortSeriesNeverStored ==
  [][/\ \A u \in DOMAIN sparklineMap' : Len(sparklineMap'[u]) >= 2
     /\ DOMAIN sparklineMap \subseteq DOMAIN sparklineMap'
     /\ spOp'.op = "batch" =>
          \A u \in spOp'.short :
            IF u \in DOMAIN sparklineMap
            THEN sparklineMap'[u] = sparklineMap[u]
            ELSE u \notin DOMAIN sparklineMap']_vars

\* a batch has just brought a short series for A, whose cached series is
\* still held, and the series of B, which went offline, is still held too
C18_Witness ==
  /\ spOp.op = "batch"
  /\ "A" \in spOp.short
  /\ stable.current = <<"A">>
  /\ DOMAIN sparklineMap = {"A", "B"}
  /\ Len(sparklineMap["A"]) >= 2

\* C19: a render with a new onlineUuids array that has the same members as
\* the previous one (another order, or only another array) starts no fetch
\* cycle and leaves the interval alone: the stable array, the fetchAll state
\* and the timer are all unchanged by it.
C19_SameMembersNoRefetch ==
  [][spOp'.op = "render" /\ Members(rawOnlineUuids') = Members(rawOnlineUuids)
       => UNCHANGED <<stable, fetcher, spTimer>>]_vars

\* the provider was idle and has just been re-rendered with B,A after A,B
C19_Witness ==
  /\ spOp.op = "render"
  /\ spOp.prev = <<"A", "B">>
  /\ rawOnlineUuids = <<"B", "A">>
  /\ stable.current = <<"A", "B">>
  /\ fetcher = [fetchingRef |-> FALSE, cycle |-> NoCycle]

\* C20: after a render that changes the membership of the online set, and
\* after every tick of the interval, a fetch cycle over the entities of the
\* current online set is running (when that set is not empty, and for a tick
\* when the interval holds the members of that set).
C20_CycleForCurrentSet ==
  [][/\ spOp'.op = "render"
          /\ Members(rawOnlineUuids') # Members(rawOnlineUuids)
          /\ rawOnlineUuids' # <<>>
        => /\ fetcher'.cycle # NoCycle
           /\ Members(fetcher'.cycle.uuids) = Members(rawOnlineUuids')
     /\ spOp'.op = "tick" /\ rawOnlineUuids # <<>>
          /\ Members(spTimer.uuids) = Members(rawOnlineUuids)
        => /\ fetcher'.cycle # NoCycle
           /\ Members(fetcher'.cycle.uuids) = Members(rawOnlineUuids)]_vars

C23_BatchesSequential ==
  [][/\ fetcher'.fetchingRef <=> fetcher'.cycle # NoCycle
     /\ fetcher'.cycle # NoCycle =>
          /\ Cardinality(fetcher'.cycle.pending) <= BATCH_SIZE
          /\ fetcher'.cycle.pending \subseteq Members(Batch(fetcher'.cycle))
     /\ fetcher.cycle # NoCycle /\ fetcher'.cycle # NoCycle
          /\ fetcher'.cycle.i # fetcher.cycle.i
        => /\ Cardinality(fetcher.cycle.pending) = 1
           /\ fetcher'.cycle.i = fetcher.cycle.i + BATCH_SIZE
           /\ fetcher'.cycle.uuids = fetcher.cycle.uuids
     /\ fetcher.fetchingRef /\ spOp'.op \in {"render", "tick"}
        => fetcher' = fetcher]_vars

\* the first batch of five has settled, B's request failed and C's series is
\* stored, and the request of the second batch is outstanding
C23_Witness ==
  /\ spOp.op = "batch"
  /\ "B" \in spOp.short
  /\ fetcher.fetchingRef
  /\ fetcher.cycle # NoCycle
  /\ fetcher.cycle.i = BATCH_SIZE
  /\ fetcher.cycle.pending = {"E"}
  /\ "C" \in DOMAIN sparklineMap
  /\ "B" \notin DOMAIN sparklineMap

PollResultStep ==
  lastOp'.op \in {"apply", "unheard"} /\ pollsInFlight' = pollsInFlight - 1

\* C21: the result of a poll that was issued before a poll whose result has
\* already been stored changes neither the presence set nor the registry
\* snapshot.
C21_StaleResultDiscarded ==
  [][PollResultStep /\ lastOp'.stale =>
       UNCHANGED <<onlineNodes, nodes, snapRef>>]_vars

\* C22: the interval callback issues get-latest-status only when no earlier
\* poll is still awaiting its result.
C22_SinglePollInFlight ==
  [][TickPollStep => pollsInFlight = 0]_vars

\* a step that invokes wsService.connect()
ConnectStep == lastOp'.op \in {"mount", "reconnect"}

AwaitedKeys(u) ==
  (IF rows[u].fetchCall = NoCall THEN {}
   ELSE {LoadHistoryKey(u, rows[u].fetchCall.fetchHours)})
  \cup
  (IF timerCalls[u] = NoCall THEN {}
   ELSE {LoadHistoryKey(u, timerCalls[u].deltaHours)})

\* C24: at most one getRecords(load) request per entity is outstanding: the
\* calls awaited for an entity all go under one dedup key.
C24_OneLoadRequestPerEntity ==
  \A u \in Ids : Cardinality(AwaitedKeys(u)) <= 1

(* ---------------------------------------------------------------------- *)
(* Teardown of the time-series rows                                        *)
(* ---------------------------------------------------------------------- *)
\* C25: while UptimeView is unmounted no interval callback of its rows
\* starts, and no request that a row had in flight changes the process-wide
\* cache when it settles.
C25_NothingAfterTeardown ==
  [][~uvMounted /\ ~uvMounted' =>
       /\ cache' = cache
       /\ \A u \in Ids : timerCalls[u] = NoCall => timerCalls'[u] = NoCall]_vars

(* ---------------------------------------------------------------------- *)
(* RPC2Client: properties                                                  *)
(* ---------------------------------------------------------------------- *)
\* the sockets that are connecting or open
LiveSockets(c) == {i \in SocketSlots : c.sockets[i].ready \in {"connecting", "open"}}

\* a step that handled an event of a socket that was not the one in _ws
StaleSocketEvent ==
  /\ rpcClient' # rpcClient
  /\ rcOp'.op \in {"open", "close", "error", "connecttimeout"}
  /\ ~rcOp'.current

\* C27: the connection state is 'connected' only while the socket in _ws is
\* open; at most one socket is live; an event of a socket that has been
\* replaced or dropped changes neither the connection state nor the heartbeat
\* nor the scheduled reconnects; and while autoReconnect is off (from
\* disconnect() to reconnect()) no reconnect is scheduled.
C27_StateDescribesCurrentSocket ==
  [][/\ rpcClient'.connectionState = "connected" =>
          /\ rpcClient'.ws # 0
          /\ rpcClient'.sockets[rpcClient'.ws].ready = "open"
     /\ Cardinality(LiveSockets(rpcClient')) <= 1
     /\ StaleSocketEvent =>
          /\ rpcClient'.connectionState = rpcClient.connectionState
          /\ rpcClient'.heartbeat = rpcClient.heartbeat
          /\ rpcClient'.timers = rpcClient.timers
     /\ ~rpcClient'.autoReconnect => rpcClient'.timers = 0]_vars

\* C29: a request that was sent has resolve or reject called for it at most
\* once; it is in the pending table, with its timeout running, exactly while
\* its promise is pending; once settled its outcome never changes (a later
\* response is ignored); and disconnect() leaves the pending table empty.
C29_SettledExactlyOnce ==
  [][/\ \A id \in DOMAIN rpcClient'.calls :
          rpcClient'.calls[id].sent =>
            /\ rpcClient'.calls[id].settles <= 1
            /\ rpcClient'.calls[id].state = "pending" <=>
                 id \in rpcClient'.pendingRequests
            /\ rpcClient'.calls[id].state = "pending" <=>
                 rpcClient'.calls[id].timer
            /\ rpcClient'.calls[id].state = "pending" <=>
                 rpcClient'.calls[id].settles = 0
     /\ \A id \in DOMAIN rpcClient.calls :
          rpcClient.calls[id].sent /\ rpcClient.calls[id].state # "pending" =>
            rpcClient'.calls[id].state = rpcClient.calls[id].state
     /\ rcOp'.op \in {"disconnect", "reconnect"} =>
          rpcClient'.pendingRequests = {}]_vars

\* request 2 was resolved by its response; request 1 was rejected by its
\* timeout or by disconnect(), and its response, arriving afterwards, has
\* just been ignored
C29_Witness ==
  /\ rcOp.op = "response"
  /\ rcOp.sock = 1
  /\ ~rcOp.current
  /\ DOMAIN rpcClient.calls = {1, 2}
  /\ rpcClient.calls[1].sent
  /\ rpcClient.calls[1].state = "rejected"
  /\ rpcClient.calls[1].settles = 1
  /\ rpcClient.calls[1].answered
  /\ rpcClient.calls[2].state = "resolved"
  /\ rpcClient.pendingRequests = {}

====
